---- MODULE Spec2Model ----
(***************************************************************************)
(* A model of tao::pool< T > (src/pool.hpp): a thread-safe pool of         *)
(* reusable items.  Items are handed out as std::shared_ptr< T > whose     *)
(* deleter holds a std::weak_ptr to the pool; when the last reference      *)
(* drops, the deleter returns the item to the pool's std::list (items_)    *)
(* under the pool's mutex, or destroys it.                                 *)
(*                                                                         *)
(* Threads interleave at the granularity of the code's synchronisation:    *)
(* acquiring mutex_, the critical section up to the lock_guard's           *)
(* destructor, each call of a hook (v_create, v_is_valid) outside the      *)
(* lock, and the return to the caller.                                     *)
(***************************************************************************)
EXTENDS Integers, Sequences, FiniteSets

\* ------------------------------------------------------------------ bounds

\* The number of items v_create() can construct in one behaviour.
MaxItems == 2

Threads == {"t1", "t2"}
Pools == {"p1", "p2"}
Items == 1..MaxItems

NoPool == "none"
NoThread == "nobody"
NoItem == 0

\* What get_deleter< deleter > finds in a shared_ptr that no pool has made.
NoDeleter == "foreign"

\* ------------------------------------------------------------------- state

VARIABLES
    owned,            \* [Pools -> BOOLEAN]: a std::shared_ptr< pool > is held outside the items
    alive,            \* [Pools -> BOOLEAN]: the pool's strong count is > 0 (~pool has not run)
    mutex_,           \* [Pools -> Threads \cup {NoThread}]: pool::mutex_ and its holder
    items_,           \* [Pools -> Seq(Items)]: pool::items_, back of the list = end of the sequence
    holders,          \* [Items -> SUBSET Threads]: the threads holding a copy of the item's shared_ptr
    pool_,            \* [Items -> Pools \cup {NoPool, NoDeleter}]: deleter::pool_ of the item's current control block
    valid,            \* [Items -> BOOLEAN]: what v_is_valid( item ) returns now
    constructed,      \* the number of items constructed so far; they are 1..constructed
    destroyed,        \* [Items -> Nat]: how often the item's destructor has run
    pc,               \* [Threads -> STRING]: where each thread stands in its call
    this,             \* [Threads -> Pools \cup {NoPool}]: `this` of the call (p in the deleter)
    cur,              \* [Threads -> Items \cup {NoItem}]: sp in get(), up then sp in the deleter, the result
    deferred_delete,  \* [Threads -> Seq(Items)]: erase_invalid()'s local list
    snap,             \* [Threads -> [list, ok]]: items_ of `this` and its valid items when the call began, or Stale
    sawEmpty,         \* [Threads -> BOOLEAN]: pull() has returned an empty pointer to this get()
    made              \* [Threads -> Nat]: v_create() invocations made by this call

progVars == <<owned, alive, mutex_, items_, holders, pool_, valid, constructed, destroyed>>
vars == <<owned, alive, mutex_, items_, holders, pool_, valid, constructed, destroyed,
          pc, this, cur, deferred_delete, snap, sawEmpty, made>>

\* ----------------------------------------------------------------- helpers

Range(s) == {s[k] : k \in 1..Len(s)}

\* s without its last element (std::list::pop_back)
Front(s) == SubSeq(s, 1, Len(s) - 1)

Last(s) == s[Len(s)]

\* s without the element at position k (std::list::erase)
RemoveAt(s, k) == SubSeq(s, 1, k - 1) \o SubSeq(s, k + 1, Len(s))

\* The destructor of T runs once on each item of S; valid keeps the answer
\* v_is_valid gave last.
Destroy(S) ==
    /\ destroyed' = [i \in Items |-> IF i \in S THEN destroyed[i] + 1 ELSE destroyed[i]]
    /\ UNCHANGED valid

\* The value of snap[t] when t is in no call.
NoSnap == [list |-> <<>>, ok |-> {}]

\* The value of snap[t] when t's call has overlapped a call of another thread
\* or a change made by the environment.
Stale == [list |-> <<NoItem>>, ok |-> {}]

\* The list of pool p and the items in it that v_is_valid accepts.
Snapshot(p) == [list |-> items_[p], ok |-> {i \in Range(items_[p]) : valid[i]}]

\* No thread but t is in a call.
Alone(t) == \A u \in Threads \ {t} : pc[u] = "idle"

\* snap when thread t begins a call on pool p: t's snapshot if t is alone,
\* and no snapshot is left to a thread whose call is under way.
Begin(t, p) ==
    [u \in Threads |-> IF u = t THEN (IF Alone(t) THEN Snapshot(p) ELSE Stale)
                        ELSE IF pc[u] # "idle" THEN Stale ELSE snap[u]]

\* snap after a step of the environment or of a thread that is in no call.
Disturbed == [u \in Threads |-> IF pc[u] # "idle" THEN Stale ELSE snap[u]]

\* The places of a call in which the caller's own shared_ptr< pool > is in use.
CallPcs == {"pull", "pull_cs", "check", "fallback", "erase_cs", "erase_swept", "erase_destroy"}

\* The places of the deleter in which `p`, the locked weak_ptr, is alive.
PushPcs == {"push", "push_lock", "push_cs", "push_ret"}

\* The threads other than t that hold a strong reference to p from a deleter.
OtherPushers(t, p) == {u \in Threads \ {t} : pc[u] \in PushPcs /\ this[u] = p}

Init ==
    /\ owned = [p \in Pools |-> TRUE]
    /\ alive = [p \in Pools |-> TRUE]
    /\ mutex_ = [p \in Pools |-> NoThread]
    /\ items_ = [p \in Pools |-> <<>>]
    /\ holders = [i \in Items |-> {}]
    /\ pool_ = [i \in Items |-> NoPool]
    /\ valid = [i \in Items |-> TRUE]
    /\ constructed = 0
    /\ destroyed = [i \in Items |-> 0]
    /\ pc = [t \in Threads |-> "idle"]
    /\ this = [t \in Threads |-> NoPool]
    /\ cur = [t \in Threads |-> NoItem]
    /\ deferred_delete = [t \in Threads |-> <<>>]
    /\ snap = [t \in Threads |-> NoSnap]
    /\ sawEmpty = [t \in Threads |-> FALSE]
    /\ made = [t \in Threads |-> 0]


\* ------------------------------------------------- the calls' common steps

\* The call's local state when a thread is back in its caller.
Reset(t) ==
    /\ pc' = [pc EXCEPT ![t] = "idle"]
    /\ this' = [this EXCEPT ![t] = NoPool]
    /\ cur' = [cur EXCEPT ![t] = NoItem]
    /\ deferred_delete' = [deferred_delete EXCEPT ![t] = <<>>]
    /\ snap' = [snap EXCEPT ![t] = NoSnap]
    /\ sawEmpty' = [sawEmpty EXCEPT ![t] = FALSE]
    /\ made' = [made EXCEPT ![t] = 0]

\* pool_.lock() in the deleter: the pool the item's deleter can still reach.
lock_ignores_expiry(i) == pool_[i]

lock(i) == IF pool_[i] \in Pools /\ alive[pool_[i]] THEN pool_[i] ELSE NoPool

pop_back_keeps(s) == s

\* std::list::pop_back on items_
pop_back(s) == Front(s)

push_front(s, i) == <<i>> \o s

\* std::list::push_back on items_
push_back(s, i) == Append(s, i)

\* Thread t gives up a strong reference to pool p taken in the deleter: whether
\* it was the last one, so that ~pool runs.
LastStrong(t, p) == ~owned[p] /\ OtherPushers(t, p) = {}

\* ~pool: the list is destroyed, and with it every shared_ptr in it. They carry
\* deleter(), whose pool_ is empty, so each deleter destroys its item.
\* Returns <<alive', items_', the items destroyed>>.
PoolDtor_leaks(p) ==
    <<[alive EXCEPT ![p] = FALSE], [items_ EXCEPT ![p] = <<>>], {}>>

PoolDtor(p) ==
    <<[alive EXCEPT ![p] = FALSE], [items_ EXCEPT ![p] = <<>>], Range(items_[p])>>

\* The last strong reference given up by a deleter, with a ~pool that frees
\* the list's nodes without destroying the items.
ReleaseStrong_leaks(t, p, S) ==
    IF LastStrong(t, p)
    THEN /\ alive' = PoolDtor(p)[1]
         /\ items_' = PoolDtor(p)[2]
         /\ Destroy(S)
    ELSE /\ Destroy(S)
         /\ UNCHANGED <<alive, items_>>

\* Thread t gives up the strong reference to pool p that its deleter took,
\* after the deleter has left the items of S to be destroyed.
ReleaseStrong(t, p, S) ==
    IF LastStrong(t, p)
    THEN /\ alive' = PoolDtor(p)[1]
         /\ items_' = PoolDtor(p)[2]
         /\ Destroy(PoolDtor(p)[3] \cup S)
    ELSE /\ Destroy(S)
         /\ UNCHANGED <<alive, items_>>

\* ------------------------------------------------------------ create()

\* create() that registers an item before v_create() throws.
create_leaky(t, p) ==
    \/ /\ constructed < MaxItems
       /\ LET i == constructed + 1 IN
            /\ constructed' = i
            /\ holders' = [holders EXCEPT ![i] = {t}]
            /\ pool_' = [pool_ EXCEPT ![i] = p]
            /\ cur' = [cur EXCEPT ![t] = i]
       /\ pc' = [pc EXCEPT ![t] = IF pc[t] = "fallback" THEN "get_ret" ELSE "create_ret"]
       /\ made' = [made EXCEPT ![t] = made[t] + 1]
       /\ UNCHANGED <<owned, alive, mutex_, items_, valid, destroyed>>
    \/ /\ constructed < MaxItems
       /\ constructed' = constructed + 1
       /\ pc' = [pc EXCEPT ![t] = IF pc[t] = "fallback" THEN "get_throw" ELSE "create_throw"]
       /\ cur' = [cur EXCEPT ![t] = NoItem]
       /\ made' = [made EXCEPT ![t] = made[t] + 1]
       /\ UNCHANGED <<owned, alive, mutex_, items_, holders, pool_, valid, destroyed>>

\* create(): v_create() returns a new item and the result is bound to p, or
\* v_create() throws and the exception leaves create().
create(t, p) ==
    \/ /\ constructed < MaxItems
       /\ LET i == constructed + 1 IN
            /\ constructed' = i
            /\ holders' = [holders EXCEPT ![i] = {t}]
            /\ pool_' = [pool_ EXCEPT ![i] = p]
            /\ cur' = [cur EXCEPT ![t] = i]
       /\ pc' = [pc EXCEPT ![t] = IF pc[t] = "fallback" THEN "get_ret" ELSE "create_ret"]
       /\ made' = [made EXCEPT ![t] = made[t] + 1]
       /\ UNCHANGED <<owned, alive, mutex_, items_, valid, destroyed>>
    \/ /\ pc' = [pc EXCEPT ![t] = IF pc[t] = "fallback" THEN "get_throw" ELSE "create_throw"]
       /\ cur' = [cur EXCEPT ![t] = NoItem]
       /\ made' = [made EXCEPT ![t] = made[t] + 1]
       /\ UNCHANGED progVars

\* create() that hands out the last entry of items_ when there is one.
Create_reuses(t, p) ==
    /\ pc[t] = "idle"
    /\ owned[p]
    /\ this' = [this EXCEPT ![t] = p]
    /\ snap' = Begin(t, p)
    /\ IF items_[p] # <<>> /\ mutex_[p] = NoThread
       THEN LET i == items_[p][Len(items_[p])] IN
              /\ items_' = [items_ EXCEPT ![p] = SubSeq(items_[p], 1, Len(items_[p]) - 1)]
              /\ holders' = [holders EXCEPT ![i] = {t}]
              /\ pool_' = [pool_ EXCEPT ![i] = p]
              /\ cur' = [cur EXCEPT ![t] = i]
              /\ pc' = [pc EXCEPT ![t] = "create_ret"]
              /\ UNCHANGED <<owned, alive, mutex_, valid, constructed, destroyed, made>>
       ELSE create(t, p)
    /\ UNCHANGED <<deferred_delete, sawEmpty>>

Create(t, p) ==
    /\ pc[t] = "idle"
    /\ owned[p]
    /\ this' = [this EXCEPT ![t] = p]
    /\ snap' = Begin(t, p)
    /\ create(t, p)
    /\ UNCHANGED <<deferred_delete, sawEmpty>>

\* The caller receives the result of create(), get() or erase_invalid().
Return(t) ==
    /\ pc[t] \in {"create_ret", "get_ret", "erase_ret"}
    /\ Reset(t)
    /\ UNCHANGED progVars

\* The caller receives the exception of v_create().
Catch(t) ==
    /\ pc[t] \in {"create_throw", "get_throw"}
    /\ Reset(t)
    /\ UNCHANGED progVars

\* --------------------------------------------------------------- get()

Get(t, p) ==
    /\ pc[t] = "idle"
    /\ owned[p]
    /\ pc' = [pc EXCEPT ![t] = "pull"]
    /\ this' = [this EXCEPT ![t] = p]
    /\ snap' = Begin(t, p)
    /\ UNCHANGED <<cur, deferred_delete, sawEmpty, made>>
    /\ UNCHANGED progVars

\* pull(): the lock_guard's constructor
PullLock(t) ==
    /\ pc[t] = "pull"
    /\ mutex_[this[t]] = NoThread
    /\ mutex_' = [mutex_ EXCEPT ![this[t]] = t]
    /\ pc' = [pc EXCEPT ![t] = "pull_cs"]
    /\ UNCHANGED <<owned, alive, items_, holders, pool_, valid, constructed, destroyed>>
    /\ UNCHANGED <<this, cur, deferred_delete, snap, sawEmpty, made>>

\* pull() that, finding items_ empty, unlocks and tries again until an item
\* is there.
PullPop_waits(t) ==
    /\ pc[t] = "pull_cs"
    /\ LET p == this[t] IN
         IF items_[p] # <<>>
         THEN LET i == Last(items_[p]) IN
                /\ items_' = [items_ EXCEPT ![p] = pop_back(items_[p])]
                /\ holders' = [holders EXCEPT ![i] = {t}]
                /\ cur' = [cur EXCEPT ![t] = i]
                /\ pc' = [pc EXCEPT ![t] = "check"]
         ELSE /\ pc' = [pc EXCEPT ![t] = "pull"]
              /\ UNCHANGED <<items_, holders, cur>>
    /\ mutex_' = [mutex_ EXCEPT ![this[t]] = NoThread]
    /\ UNCHANGED <<owned, alive, pool_, valid, constructed, destroyed>>
    /\ UNCHANGED <<this, deferred_delete, snap, sawEmpty, made>>

\* pull(): the critical section and the lock_guard's destructor
PullPop(t) ==
    /\ pc[t] = "pull_cs"
    /\ LET p == this[t] IN
         IF items_[p] # <<>>
         THEN LET i == Last(items_[p]) IN
                /\ items_' = [items_ EXCEPT ![p] = pop_back(items_[p])]
                /\ holders' = [holders EXCEPT ![i] = {t}]
                /\ cur' = [cur EXCEPT ![t] = i]
                /\ pc' = [pc EXCEPT ![t] = "check"]
                /\ UNCHANGED sawEmpty
         ELSE /\ cur' = [cur EXCEPT ![t] = NoItem]
              /\ sawEmpty' = [sawEmpty EXCEPT ![t] = TRUE]
              /\ pc' = [pc EXCEPT ![t] = "fallback"]
              /\ UNCHANGED <<items_, holders>>
    /\ mutex_' = [mutex_ EXCEPT ![this[t]] = NoThread]
    /\ UNCHANGED <<owned, alive, pool_, valid, constructed, destroyed>>
    /\ UNCHANGED <<this, deferred_delete, snap, made>>

\* get() without the call of v_is_valid.
GetCheck_unchecked(t) ==
    /\ pc[t] = "check"
    /\ pool_' = [pool_ EXCEPT ![cur[t]] = this[t]]
    /\ pc' = [pc EXCEPT ![t] = "get_ret"]
    /\ UNCHANGED <<owned, alive, mutex_, items_, holders, valid, constructed, destroyed>>
    /\ UNCHANGED <<this, cur, deferred_delete, snap, sawEmpty, made>>

\* get() without the call of attach.
GetCheck_unbound(t) ==
    /\ pc[t] = "check"
    /\ IF valid[cur[t]]
       THEN /\ pc' = [pc EXCEPT ![t] = "get_ret"]
            /\ UNCHANGED <<holders, destroyed, valid, cur>>
       ELSE /\ holders' = [holders EXCEPT ![cur[t]] = {}]
            /\ Destroy({cur[t]})
            /\ cur' = [cur EXCEPT ![t] = NoItem]
            /\ pc' = [pc EXCEPT ![t] = "pull"]
    /\ UNCHANGED <<owned, alive, mutex_, items_, pool_, constructed>>
    /\ UNCHANGED <<this, deferred_delete, snap, sawEmpty, made>>

\* get(): v_is_valid( *sp ), then attach and return, or sp goes out of scope:
\* its deleter is deleter(), which destroys the item.
GetCheck(t) ==
    /\ pc[t] = "check"
    /\ LET i == cur[t] IN
         IF valid[i]
         THEN /\ pool_' = [pool_ EXCEPT ![i] = this[t]]
              /\ pc' = [pc EXCEPT ![t] = "get_ret"]
              /\ UNCHANGED <<holders, destroyed, valid, cur>>
         ELSE /\ holders' = [holders EXCEPT ![i] = {}]
              /\ Destroy({i})
              /\ cur' = [cur EXCEPT ![t] = NoItem]
              /\ pc' = [pc EXCEPT ![t] = "pull"]
              /\ UNCHANGED pool_
    /\ UNCHANGED <<owned, alive, mutex_, items_, constructed>>
    /\ UNCHANGED <<this, deferred_delete, snap, sawEmpty, made>>

\* get(): return create()
GetFallback(t) ==
    /\ pc[t] = "fallback"
    /\ create(t, this[t])
    /\ UNCHANGED <<this, deferred_delete, snap, sawEmpty>>


\* ------------------------------------------------------- erase_invalid()

\* The loop with the iterator advanced after an erase as well.
RECURSIVE erase_loop_skips(_, _, _, _)
erase_loop_skips(s, it, dd, v) ==
    IF it > Len(s) THEN <<s, dd>>
    ELSE IF ~v[s[it]] THEN erase_loop_skips(RemoveAt(s, it), it + 1, Append(dd, s[it]), v)
    ELSE erase_loop_skips(s, it + 1, dd, v)

\* The loop left at the first erase.
RECURSIVE erase_loop_stops(_, _, _, _)
erase_loop_stops(s, it, dd, v) ==
    IF it > Len(s) THEN <<s, dd>>
    ELSE IF ~v[s[it]] THEN <<RemoveAt(s, it), Append(dd, s[it])>>
    ELSE erase_loop_stops(s, it + 1, dd, v)

\* The loop of erase_invalid() over items_ = s from position it on, with
\* deferred_delete = dd and v the answers of v_is_valid:
\* <<items_, deferred_delete>> when the loop ends.
RECURSIVE erase_loop(_, _, _, _)
erase_loop(s, it, dd, v) ==
    IF it > Len(s) THEN <<s, dd>>
    ELSE IF ~v[s[it]] THEN erase_loop(RemoveAt(s, it), it, Append(dd, s[it]), v)
    ELSE erase_loop(s, it + 1, dd, v)

\* erase_invalid(): the call, up to the lock_guard's constructor
EraseInvalid(t, p) ==
    /\ pc[t] = "idle"
    /\ owned[p]
    /\ mutex_[p] = NoThread
    /\ mutex_' = [mutex_ EXCEPT ![p] = t]
    /\ pc' = [pc EXCEPT ![t] = "erase_cs"]
    /\ this' = [this EXCEPT ![t] = p]
    /\ snap' = Begin(t, p)
    /\ UNCHANGED <<owned, alive, items_, holders, pool_, valid, constructed, destroyed>>
    /\ UNCHANGED <<cur, deferred_delete, sawEmpty, made>>

\* erase_invalid() that erases the invalid entries from items_ without moving
\* them to deferred_delete first: they are destroyed inside the loop.
EraseSweep_destroys(t) ==
    /\ pc[t] = "erase_cs"
    /\ LET p == this[t]
           r == erase_loop(items_[p], 1, <<>>, valid)
       IN /\ items_' = [items_ EXCEPT ![p] = r[1]]
          /\ Destroy(Range(r[2]))
    /\ pc' = [pc EXCEPT ![t] = "erase_swept"]
    /\ UNCHANGED <<owned, alive, mutex_, holders, pool_, constructed>>
    /\ UNCHANGED <<this, cur, deferred_delete, snap, sawEmpty, made>>

\* erase_invalid(): the loop, under the lock
EraseSweep(t) ==
    /\ pc[t] = "erase_cs"
    /\ LET p == this[t]
           r == erase_loop(items_[p], 1, <<>>, valid)
       IN /\ items_' = [items_ EXCEPT ![p] = r[1]]
          /\ deferred_delete' = [deferred_delete EXCEPT ![t] = r[2]]
          /\ holders' = [i \in Items |-> IF i \in Range(r[2]) THEN {t} ELSE holders[i]]
    /\ pc' = [pc EXCEPT ![t] = "erase_swept"]
    /\ UNCHANGED <<owned, alive, mutex_, pool_, valid, constructed, destroyed>>
    /\ UNCHANGED <<this, cur, snap, sawEmpty, made>>

\* erase_invalid(): the lock_guard's destructor, the first of the two locals'
EraseUnlock(t) ==
    /\ pc[t] = "erase_swept"
    /\ mutex_' = [mutex_ EXCEPT ![this[t]] = NoThread]
    /\ pc' = [pc EXCEPT ![t] = "erase_destroy"]
    /\ UNCHANGED <<owned, alive, items_, holders, pool_, valid, constructed, destroyed>>
    /\ UNCHANGED <<this, cur, deferred_delete, snap, sawEmpty, made>>

\* erase_invalid(): the destructor of deferred_delete; every entry's deleter
\* is deleter(), which destroys the item.
EraseDestroy(t) ==
    /\ pc[t] = "erase_destroy"
    /\ Destroy(Range(deferred_delete[t]))
    /\ holders' = [i \in Items |-> IF i \in Range(deferred_delete[t]) THEN {} ELSE holders[i]]
    /\ deferred_delete' = [deferred_delete EXCEPT ![t] = <<>>]
    /\ pc' = [pc EXCEPT ![t] = "erase_ret"]
    /\ UNCHANGED <<owned, alive, mutex_, items_, pool_, constructed>>
    /\ UNCHANGED <<this, cur, snap, sawEmpty, made>>

\* ------------------------------------------- the release of a shared_ptr

\* Handles whose copies each run the deleter when dropped, whether or not
\* other copies remain.
DropHandle_every(t, i) ==
    /\ pc[t] = "idle"
    /\ t \in holders[i]
    /\ holders' = [holders EXCEPT ![i] = holders[i] \ {t}]
    /\ IF lock(i) # NoPool
       THEN /\ pc' = [pc EXCEPT ![t] = "push"]
            /\ this' = [this EXCEPT ![t] = lock(i)]
            /\ cur' = [cur EXCEPT ![t] = i]
            /\ snap' = Begin(t, lock(i))
            /\ UNCHANGED <<destroyed, valid, pool_>>
       ELSE /\ Destroy({i})
            /\ pc' = [pc EXCEPT ![t] = "drop_ret"]
            /\ cur' = [cur EXCEPT ![t] = i]
            /\ snap' = Disturbed
            /\ UNCHANGED <<pool_, this>>
    /\ UNCHANGED <<owned, alive, mutex_, items_, constructed>>
    /\ UNCHANGED <<deferred_delete, sawEmpty, made>>

\* A deleter that asks v_is_valid before it looks for the pool, and destroys
\* what fails.
DropHandle_validates(t, i) ==
    /\ pc[t] = "idle"
    /\ t \in holders[i]
    /\ holders' = [holders EXCEPT ![i] = holders[i] \ {t}]
    /\ IF holders[i] # {t}
       THEN /\ snap' = Disturbed
            /\ UNCHANGED <<destroyed, valid, pool_, pc, this, cur>>
       ELSE IF valid[i] /\ lock(i) # NoPool
            THEN /\ pc' = [pc EXCEPT ![t] = "push"]
                 /\ this' = [this EXCEPT ![t] = lock(i)]
                 /\ cur' = [cur EXCEPT ![t] = i]
                 /\ snap' = Begin(t, lock(i))
                 /\ UNCHANGED <<destroyed, valid, pool_>>
            ELSE /\ Destroy({i})
                 /\ pc' = [pc EXCEPT ![t] = "drop_ret"]
                 /\ cur' = [cur EXCEPT ![t] = i]
                 /\ snap' = Disturbed
                 /\ UNCHANGED <<pool_, this>>
    /\ UNCHANGED <<owned, alive, mutex_, items_, constructed>>
    /\ UNCHANGED <<deferred_delete, sawEmpty, made>>

\* Thread t drops its copy of item i's shared_ptr. When it is the last copy the
\* deleter runs: up owns the item, and pool_.lock() yields the pool (then
\* push( up ) follows) or nothing (then up's destructor destroys the item, and
\* this[t] names no pool).
DropHandle(t, i) ==
    /\ pc[t] = "idle"
    /\ t \in holders[i]
    /\ holders' = [holders EXCEPT ![i] = holders[i] \ {t}]
    /\ IF holders[i] # {t}
       THEN /\ snap' = Disturbed
            /\ UNCHANGED <<destroyed, valid, pool_, pc, this, cur>>
       ELSE IF lock(i) # NoPool
            THEN /\ pc' = [pc EXCEPT ![t] = "push"]
                 /\ this' = [this EXCEPT ![t] = lock(i)]
                 /\ cur' = [cur EXCEPT ![t] = i]
                 /\ snap' = Begin(t, lock(i))
                 /\ UNCHANGED <<destroyed, valid, pool_>>
            ELSE /\ Destroy({i})
                 /\ pc' = [pc EXCEPT ![t] = "drop_ret"]
                 /\ cur' = [cur EXCEPT ![t] = i]
                 /\ snap' = Disturbed
                 /\ UNCHANGED <<pool_, this>>
    /\ UNCHANGED <<owned, alive, mutex_, items_, constructed>>
    /\ UNCHANGED <<deferred_delete, sawEmpty, made>>

\* push() without the call of v_is_valid.
PushCheck_unchecked(t) ==
    /\ pc[t] = "push"
    /\ pool_' = [pool_ EXCEPT ![cur[t]] = NoPool]
    /\ holders' = [holders EXCEPT ![cur[t]] = {t}]
    /\ pc' = [pc EXCEPT ![t] = "push_lock"]
    /\ UNCHANGED <<owned, alive, mutex_, items_, valid, constructed, destroyed>>
    /\ UNCHANGED <<this, cur, deferred_delete, snap, sawEmpty, made>>

\* push(): v_is_valid( *up ). A valid item moves into sp, a new shared_ptr with
\* deleter(). An invalid item stays in up: push() returns, p goes out of scope
\* (and with the last strong reference ~pool runs), then up destroys the item.
\* this[t] keeps naming the pool that refused the item.
PushCheck(t) ==
    /\ pc[t] = "push"
    /\ LET i == cur[t]
           p == this[t]
       IN IF valid[i]
          THEN /\ pool_' = [pool_ EXCEPT ![i] = NoPool]
               /\ holders' = [holders EXCEPT ![i] = {t}]
               /\ pc' = [pc EXCEPT ![t] = "push_lock"]
               /\ UNCHANGED <<alive, items_, destroyed, valid>>
               /\ UNCHANGED <<this, cur, deferred_delete, snap, sawEmpty, made>>
          ELSE /\ ReleaseStrong(t, p, {i})
               /\ pc' = [pc EXCEPT ![t] = "drop_ret"]
               /\ UNCHANGED <<pool_, holders>>
               /\ UNCHANGED <<this, cur, deferred_delete, snap, sawEmpty, made>>
    /\ UNCHANGED <<owned, mutex_, constructed>>

\* push(): the lock_guard's constructor
PushLock(t) ==
    /\ pc[t] = "push_lock"
    /\ mutex_[this[t]] = NoThread
    /\ mutex_' = [mutex_ EXCEPT ![this[t]] = t]
    /\ pc' = [pc EXCEPT ![t] = "push_cs"]
    /\ UNCHANGED <<owned, alive, items_, holders, pool_, valid, constructed, destroyed>>
    /\ UNCHANGED <<this, cur, deferred_delete, snap, sawEmpty, made>>

\* push(): items_.push_back( std::move( sp ) ) and the lock_guard's destructor
PushBack(t) ==
    /\ pc[t] = "push_cs"
    /\ items_' = [items_ EXCEPT ![this[t]] = push_back(items_[this[t]], cur[t])]
    /\ holders' = [holders EXCEPT ![cur[t]] = {}]
    /\ mutex_' = [mutex_ EXCEPT ![this[t]] = NoThread]
    /\ pc' = [pc EXCEPT ![t] = "push_ret"]
    /\ UNCHANGED <<owned, alive, pool_, valid, constructed, destroyed>>
    /\ UNCHANGED <<this, cur, deferred_delete, snap, sawEmpty, made>>

\* The deleter returns after the item's destruction, and the control block of
\* the dropped shared_ptr, with its deleter, is freed.
DropReturn(t) ==
    /\ pc[t] = "drop_ret"
    /\ pool_' = [pool_ EXCEPT ![cur[t]] = NoPool]
    /\ Reset(t)
    /\ UNCHANGED <<owned, alive, mutex_, items_, holders, valid, constructed, destroyed>>

\* The deleter returns: p goes out of scope, and with the last strong
\* reference ~pool runs on the pool the item has just been pushed to.
PushReturn(t) ==
    /\ pc[t] = "push_ret"
    /\ ReleaseStrong(t, this[t], {})
    /\ Reset(t)
    /\ UNCHANGED <<owned, mutex_, holders, pool_, constructed>>

\* --------------------------------------------------- attach() and detach()

\* The copies of a shared_ptr share one control block and so one deleter:
\* pool_ is kept for the item, not for a copy. attach() and detach() write it
\* without synchronisation; a caller's calls on the copies of one handle are
\* taken one after the other, as overlapping ones would race.

\* std::get_deleter< deleter >( sp ): whether sp's control block holds a
\* pool's deleter.
get_deleter(i) == pool_[i] # NoDeleter

\* assert( d ) fails, or with NDEBUG the write through the null d faults:
\* either way the process ends, and every thread with it.
Abort == pc' = [u \in Threads |-> "abort"]

\* attach() that takes any shared_ptr and records the pool for it.
Attach_any(t, i, p) ==
    /\ pc[t] = "idle"
    /\ t \in holders[i]
    /\ owned[p]
    /\ pool_' = [pool_ EXCEPT ![i] = p]
    /\ snap' = Disturbed
    /\ UNCHANGED <<owned, alive, mutex_, items_, holders, valid, constructed, destroyed>>
    /\ UNCHANGED <<pc, this, cur, deferred_delete, sawEmpty, made>>

Attach(t, i, p) ==
    /\ pc[t] = "idle"
    /\ t \in holders[i]
    /\ owned[p]
    /\ IF get_deleter(i)
       THEN /\ pool_' = [pool_ EXCEPT ![i] = p]
            /\ UNCHANGED pc
       ELSE /\ Abort
            /\ UNCHANGED pool_
    /\ snap' = Disturbed
    /\ UNCHANGED <<owned, alive, mutex_, items_, holders, valid, constructed, destroyed>>
    /\ UNCHANGED <<this, cur, deferred_delete, sawEmpty, made>>

\* detach() that clears an association kept with the copy of the handle, not
\* with the item: it shows at the release only if the copy is the only one.
Detach_private(t, i) ==
    /\ pc[t] = "idle"
    /\ t \in holders[i]
    /\ pool_' = [pool_ EXCEPT ![i] = IF holders[i] = {t} THEN NoPool ELSE pool_[i]]
    /\ snap' = Disturbed
    /\ UNCHANGED <<owned, alive, mutex_, items_, holders, valid, constructed, destroyed>>
    /\ UNCHANGED <<pc, this, cur, deferred_delete, sawEmpty, made>>

\* detach() that leaves the deleter as it is.
Detach_keeps(t, i) ==
    /\ pc[t] = "idle"
    /\ t \in holders[i]
    /\ UNCHANGED pool_
    /\ snap' = Disturbed
    /\ UNCHANGED <<owned, alive, mutex_, items_, holders, valid, constructed, destroyed>>
    /\ UNCHANGED <<pc, this, cur, deferred_delete, sawEmpty, made>>

Detach(t, i) ==
    /\ pc[t] = "idle"
    /\ t \in holders[i]
    /\ IF get_deleter(i)
       THEN /\ pool_' = [pool_ EXCEPT ![i] = NoPool]
            /\ UNCHANGED pc
       ELSE /\ Abort
            /\ UNCHANGED pool_
    /\ snap' = Disturbed
    /\ UNCHANGED <<owned, alive, mutex_, items_, holders, valid, constructed, destroyed>>
    /\ UNCHANGED <<this, cur, deferred_delete, sawEmpty, made>>

\* --------------------------------------------------------- the callers

\* Thread t copies its shared_ptr to item i for thread u.
CopyHandle(t, u, i) ==
    /\ pc[t] = "idle"
    /\ pc[u] = "idle"
    /\ t \in holders[i]
    /\ u \notin holders[i]
    /\ holders' = [holders EXCEPT ![i] = holders[i] \cup {u}]
    /\ snap' = Disturbed
    /\ UNCHANGED <<owned, alive, mutex_, items_, pool_, valid, constructed, destroyed>>
    /\ UNCHANGED <<pc, this, cur, deferred_delete, sawEmpty, made>>

\* Thread t makes an item and a shared_ptr to it without a pool (make_shared,
\* or new with the default deleter).
MakeExternal(t) ==
    /\ pc[t] = "idle"
    /\ constructed < MaxItems
    /\ LET i == constructed + 1 IN
         /\ constructed' = i
         /\ holders' = [holders EXCEPT ![i] = {t}]
         /\ pool_' = [pool_ EXCEPT ![i] = NoDeleter]
    /\ snap' = Disturbed
    /\ UNCHANGED <<owned, alive, mutex_, items_, valid, destroyed>>
    /\ UNCHANGED <<pc, this, cur, deferred_delete, sawEmpty, made>>

\* The item's state changes so that v_is_valid answers differently.
SetValid(i) ==
    /\ i <= constructed
    /\ destroyed[i] = 0
    /\ valid' = [valid EXCEPT ![i] = ~valid[i]]
    /\ snap' = Disturbed
    /\ UNCHANGED <<owned, alive, mutex_, items_, holders, pool_, constructed, destroyed>>
    /\ UNCHANGED <<pc, this, cur, deferred_delete, sawEmpty, made>>

\* The drop of the last outside owner when deleter::pool_ is a shared_ptr: the
\* handles bound to the pool keep it alive.
DropPool_strong(p) ==
    /\ owned[p]
    /\ \A t \in Threads : ~(pc[t] \in CallPcs /\ this[t] = p)
    /\ owned' = [owned EXCEPT ![p] = FALSE]
    /\ IF \/ \E t \in Threads : pc[t] \in PushPcs /\ this[t] = p
          \/ \E i \in Items : pool_[i] = p /\ holders[i] # {}
       THEN UNCHANGED <<alive, items_, destroyed, valid>>
       ELSE /\ alive' = PoolDtor(p)[1]
            /\ items_' = PoolDtor(p)[2]
            /\ Destroy(PoolDtor(p)[3])
    /\ snap' = Disturbed
    /\ UNCHANGED <<mutex_, holders, pool_, constructed>>
    /\ UNCHANGED <<pc, this, cur, deferred_delete, sawEmpty, made>>

\* The last shared_ptr< pool > outside the deleters is dropped; no call on the
\* pool is under way, as a caller holds one. Without a deleter holding p,
\* ~pool runs.
DropPool(p) ==
    /\ owned[p]
    /\ \A t \in Threads : ~(pc[t] \in CallPcs /\ this[t] = p)
    /\ owned' = [owned EXCEPT ![p] = FALSE]
    /\ IF \E t \in Threads : pc[t] \in PushPcs /\ this[t] = p
       THEN UNCHANGED <<alive, items_, destroyed, valid>>
       ELSE /\ alive' = PoolDtor(p)[1]
            /\ items_' = PoolDtor(p)[2]
            /\ Destroy(PoolDtor(p)[3])
    /\ snap' = Disturbed
    /\ UNCHANGED <<mutex_, holders, pool_, constructed>>
    /\ UNCHANGED <<pc, this, cur, deferred_delete, sawEmpty, made>>

\* ------------------------------------------------------ specifications

\* The steps of thread t.
Step(t) ==
    \/ \E p \in Pools : Create(t, p)
    \/ \E p \in Pools : Get(t, p)
    \/ PullLock(t)
    \/ PullPop(t)
    \/ GetCheck(t)
    \/ GetFallback(t)
    \/ Return(t)
    \/ Catch(t)
    \/ \E p \in Pools : EraseInvalid(t, p)
    \/ EraseSweep(t)
    \/ EraseUnlock(t)
    \/ EraseDestroy(t)
    \/ \E i \in Items : DropHandle(t, i)
    \/ PushCheck(t)
    \/ PushLock(t)
    \/ PushBack(t)
    \/ PushReturn(t)
    \/ DropReturn(t)
    \/ \E i \in Items, p \in Pools : Attach(t, i, p)
    \/ \E i \in Items : Detach(t, i)
    \/ \E u \in Threads, i \in Items : CopyHandle(t, u, i)

\* The steps of the threads' environment.
Env ==
    \/ \E i \in Items : SetValid(i)
    \/ \E p \in Pools : DropPool(p)

Next == (\E t \in Threads : Step(t)) \/ Env

\* Independent threads, interleaved at every step.
Spec == Init /\ [][Next]_vars

\* One call at a time: a thread steps only while every other thread is in its
\* caller, and the environment only between calls.
NextSeq ==
    \/ \E t \in Threads : (\A u \in Threads \ {t} : pc[u] = "idle") /\ Step(t)
    \/ (\A u \in Threads : pc[u] = "idle") /\ Env

SpecSeq == Init /\ [][NextSeq]_vars

\* The program with callers that also make shared_ptrs of their own.
NextExt == Next \/ \E t \in Threads : MakeExternal(t)

SpecExt == Init /\ [][NextExt]_vars

\* The steps of a call under way that wait for nothing: a running thread takes
\* them.
Progress(t) ==
    \/ PullPop(t)
    \/ GetCheck(t)
    \/ GetFallback(t)
    \/ Return(t)
    \/ Catch(t)
    \/ EraseSweep(t)
    \/ EraseUnlock(t)
    \/ EraseDestroy(t)
    \/ PushCheck(t)
    \/ PushBack(t)
    \/ PushReturn(t)
    \/ DropReturn(t)

\* Fair scheduling: every thread inside a call keeps running, and a thread
\* blocked in the lock_guard's constructor gets the mutex when it is free
\* again and again. Callers need not call anything.
Fairness ==
    \A t \in Threads :
        /\ WF_vars(Progress(t))
        /\ SF_vars(PullLock(t))
        /\ SF_vars(PushLock(t))

\* The pool on which the threads contend under SpecFair.
Shared == "p1"

\* The threads run get(), releases and erase_invalid() on one pool, which its
\* owner keeps, while the items' validity changes.
NextFair ==
    \/ \E t \in Threads :
          \/ Get(t, Shared)
          \/ PullLock(t)
          \/ PullPop(t)
          \/ GetCheck(t)
          \/ GetFallback(t)
          \/ Return(t)
          \/ Catch(t)
          \/ EraseInvalid(t, Shared)
          \/ EraseSweep(t)
          \/ EraseUnlock(t)
          \/ EraseDestroy(t)
          \/ \E i \in Items : DropHandle(t, i)
          \/ PushCheck(t)
          \/ PushLock(t)
          \/ PushBack(t)
          \/ PushReturn(t)
          \/ DropReturn(t)
    \/ \E i \in Items : SetValid(i)

SpecFair == Init /\ [][NextFair]_vars /\ Fairness


\* ------------------------------------------------------------- accounting

\* The items a live shared_ptr refers to: a caller's, or a call's local one
\* (sp in get() and in push(), the entries of deferred_delete).
Held == {i \in Items : holders[i] # {}}

\* The entries of all the lists, each counted as often as it occurs.
StoredEntries == UNION {{<<p, k>> : k \in 1..Len(items_[p])} : p \in Pools}

\* The deleters that hold an item in up: the last reference is gone and
\* push() has not yet moved the item into a new shared_ptr.
InDeleter == {t \in Threads : pc[t] = "push"}

\* The destructor runs so far, one element for each.
DestructorRuns == UNION {{<<i, k>> : k \in 1..destroyed[i]} : i \in Items}

\* How many owners item i has: entries of a list, the shared_ptr (all its
\* copies own it together), deleters holding it in up.
Owners(i) ==
    Cardinality({e \in StoredEntries : items_[e[1]][e[2]] = i})
    + (IF holders[i] # {} THEN 1 ELSE 0)
    + Cardinality({t \in InDeleter : cur[t] = i})

AllIdle == \A t \in Threads : pc[t] = "idle"

\* ------------------------------------------------------------------ claims

\* C1 (conservation): in every reachable state the items held through a
\* handle (a live shared_ptr, or the deleter of one whose release is under
\* way) plus the entries of all lists number exactly the items constructed
\* minus the destructor runs, and that number is not negative; when no
\* release is under way the held items are exactly those of live handles.
C1_Conservation ==
    LET live == constructed - Cardinality(DestructorRuns) IN
    /\ live >= 0
    /\ Cardinality(Held) + Cardinality(InDeleter) + Cardinality(StoredEntries) = live
    /\ InDeleter = {} => Cardinality(Held) + Cardinality(StoredEntries) = live

\* C1 witness: between calls, one item is in a list and the other has been
\* destroyed.
C1_Witness ==
    /\ AllIdle
    /\ constructed = 2
    /\ Cardinality(StoredEntries) = 1
    /\ Cardinality(DestructorRuns) = 1

\* C2 (exclusive ownership under concurrency): in every state of every
\* interleaving, an item that is constructed and not destroyed has exactly one
\* owner (one entry of one list, or one handle), a destroyed or unconstructed
\* item has none, no item is destroyed twice, and an item get() is returning
\* is referenced by the returning thread alone.
C2_ExclusiveOwnership ==
    /\ \A i \in Items :
         /\ destroyed[i] <= 1
         /\ Owners(i) = (IF i <= constructed /\ destroyed[i] = 0 THEN 1 ELSE 0)
    /\ \A t \in Threads :
         pc[t] \in {"check", "get_ret", "create_ret"} =>
            /\ holders[cur[t]] = {t}
            /\ \A u \in Threads \ {t} : pc[u] # "push_ret" => cur[u] # cur[t]

\* C2 witness: both threads are inside get() on the same pool at once, each
\* with an item of its own.
C2_Witness ==
    /\ pc["t1"] = "get_ret" /\ made["t1"] = 0
    /\ pc["t2"] = "get_ret" /\ made["t2"] = 0
    /\ this["t1"] = this["t2"]


\* The greatest element of a non-empty set of numbers.
Max(S) == CHOOSE k \in S : \A j \in S : j <= k

\* The positions of the list that t's call began with whose items
\* v_is_valid accepted then.
Good(t) == {k \in 1..Len(snap[t].list) : snap[t].list[k] \in snap[t].ok}

\* C3 (LIFO reuse): with no concurrent operation, a release appends the item
\* at the back of the list it began with, and get() returns the item nearest
\* the back of the list it began with that passes the validity hook, without a
\* call of the factory; the entries before it stay in the list in order, and
\* the entries behind it (all invalid) have been destroyed. Only when no entry
\* passes the hook does get() construct.
C3_LIFO ==
    \A t \in Threads :
        /\ (pc[t] = "push_ret" /\ snap[t] # Stale) =>
              items_[this[t]] = Append(snap[t].list, cur[t])
        /\ (pc[t] = "get_ret" /\ snap[t] # Stale) =>
              LET s == snap[t].list IN
              IF Good(t) = {}
              THEN made[t] = 1 /\ cur[t] \notin Range(s)
              ELSE /\ made[t] = 0
                   /\ cur[t] = s[Max(Good(t))]
                   /\ items_[this[t]] = SubSeq(s, 1, Max(Good(t)) - 1)
                   /\ \A k \in (Max(Good(t)) + 1)..Len(s) : destroyed[s[k]] = 1

\* C3 witness: A then B were released into an empty pool, both valid, and
\* get() is returning B, leaving A.
C3_Witness ==
    \E t \in Threads :
        /\ pc[t] = "get_ret"
        /\ snap[t] # Stale
        /\ Len(snap[t].list) = 2
        /\ Good(t) = {1, 2}
        /\ cur[t] = snap[t].list[2]
        /\ items_[this[t]] = <<snap[t].list[1]>>

\* What C4 says of one step.
C4_Step ==
    \A t \in Threads :
        (pc[t] = "check" /\ pc'[t] # "check") =>
            LET i == cur[t] IN
            IF valid[i]
            THEN pc'[t] = "get_ret" /\ cur'[t] = i /\ destroyed'[i] = 0
            ELSE /\ pc'[t] = "pull"
                 /\ cur'[t] = NoItem
                 /\ destroyed'[i] = destroyed[i] + 1
                 /\ holders'[i] = {}
                 /\ \A p \in Pools : i \notin Range(items_'[p])

\* C4 (validity gating on reuse): the step of get() that follows a pop returns
\* the popped item only if it passes the validity hook in that step; an item
\* that fails is destroyed in that step, is in no list after it, and get()
\* goes on to pop again (so to the next entry, or to construction). A
\* destroyed item is never in a list or a handle again, and every item get()
\* returns from the list is bound and not destroyed.
C4_ValidityGating ==
    /\ [][C4_Step]_vars
    /\ [](\A i \in Items : destroyed[i] > 0 => Owners(i) = 0)
    /\ [](\A t \in Threads : (pc[t] = "get_ret" /\ made[t] = 0) => destroyed[cur[t]] = 0)

\* C4 witness: get() has popped an item that failed the hook, the item is
\* destroyed, and get() is about to pop the next entry, which exists.
C4_Witness ==
    \E t \in Threads :
        /\ pc[t] = "pull"
        /\ snap[t] # Stale
        /\ Len(snap[t].list) = 2
        /\ destroyed[snap[t].list[2]] = 1
        /\ items_[this[t]] = <<snap[t].list[1]>>

\* C5 (when get() constructs; what the result is bound to): get() has called
\* the factory exactly when pull() returned an empty pointer, which it does
\* only after every popped item failed the hook; otherwise the result is a
\* popped item and the factory was not called. Either way the result is bound
\* to the pool get() was called on.
C5_FactoryIffExhausted ==
    \A t \in Threads :
        /\ pc[t] \in {"pull", "pull_cs", "check"} => (made[t] = 0 /\ ~sawEmpty[t])
        /\ pc[t] = "fallback" => (made[t] = 0 /\ sawEmpty[t] /\ cur[t] = NoItem)
        /\ pc[t] = "get_throw" => (made[t] = 1 /\ sawEmpty[t])
        /\ pc[t] = "get_ret" =>
              /\ made[t] = (IF sawEmpty[t] THEN 1 ELSE 0)
              /\ pool_[cur[t]] = this[t]
              /\ holders[cur[t]] = {t}
              /\ (snap[t] # Stale /\ made[t] = 0) => cur[t] \in snap[t].ok
              /\ (snap[t] # Stale /\ made[t] = 1) =>
                    (snap[t].ok = {} /\ cur[t] \notin Range(snap[t].list))

\* C5 witness: get() on p2 is returning the only item there is, from p2's
\* list, where it had no binding, bound to p2.
C5_Witness ==
    \E t \in Threads :
        /\ pc[t] = "get_ret"
        /\ this[t] = "p2"
        /\ made[t] = 0
        /\ cur[t] = 1
        /\ pool_[1] = "p2"
        /\ constructed = 1
        /\ items_["p1"] = <<>>


\* The entries of list s that are in the set S, in the order of s.
Only(s, S) == LET In(i) == i \in S IN SelectSeq(s, In)

\* C6 (erase_invalid() partitions the list): with no concurrent operation,
\* after the loop the list holds exactly the entries that passed the validity
\* hook, in their order, and deferred_delete the ones that failed; when
\* erase_invalid() has returned, each one that failed has been destroyed, once,
\* and is owned by nothing, and no entry that passed has been removed or
\* destroyed.
C6_ErasePartition ==
    \A t \in Threads :
        (pc[t] \in {"erase_swept", "erase_destroy", "erase_ret"} /\ snap[t] # Stale) =>
            LET s == snap[t].list
                bad == Range(s) \ snap[t].ok
            IN /\ items_[this[t]] = Only(s, snap[t].ok)
               /\ \A i \in snap[t].ok : destroyed[i] = 0
               /\ pc[t] # "erase_ret" =>
                     /\ deferred_delete[t] = Only(s, bad)
                     /\ \A i \in bad : destroyed[i] = 0 /\ holders[i] = {t}
               /\ pc[t] = "erase_ret" =>
                     /\ deferred_delete[t] = <<>>
                     /\ \A i \in bad : destroyed[i] = 1 /\ Owners(i) = 0

\* C6 witness: erase_invalid() has returned from a list of two entries, of
\* which it removed and destroyed the first and kept the second.
C6_Witness ==
    \E t \in Threads :
        /\ pc[t] = "erase_ret"
        /\ snap[t] # Stale
        /\ Len(snap[t].list) = 2
        /\ snap[t].ok = {snap[t].list[2]}
        /\ destroyed[snap[t].list[1]] = 1
        /\ items_[this[t]] = <<snap[t].list[2]>>

\* C7 (sweep idempotence): with no concurrent operation, when erase_invalid()
\* has returned, running its loop again on the list as it is, with the items'
\* validity as it is, removes nothing and leaves the list as it is; and a call
\* of erase_invalid() that begins with a list of valid entries only (what a
\* previous call leaves) removes and destroys nothing.
C7_SweepIdempotent ==
    \A t \in Threads :
        /\ (pc[t] = "erase_ret" /\ snap[t] # Stale) =>
              erase_loop(items_[this[t]], 1, <<>>, valid) = <<items_[this[t]], <<>>>>
        /\ (pc[t] \in {"erase_swept", "erase_destroy", "erase_ret"} /\ snap[t] # Stale
               /\ snap[t].ok = Range(snap[t].list)) =>
              /\ items_[this[t]] = snap[t].list
              /\ deferred_delete[t] = <<>>
              /\ \A i \in Range(snap[t].list) : destroyed[i] = 0

\* C7 witness: a call of erase_invalid() that removed an entry has returned,
\* and an entry is left in the list for a second call to pass over.
C7_Witness ==
    \E t \in Threads :
        /\ pc[t] = "erase_ret"
        /\ snap[t] # Stale
        /\ Len(snap[t].list) = 2
        /\ Len(items_[this[t]]) = 1
        /\ snap[t].ok = {snap[t].list[1]}

\* What C8 says of one step: the drop of the last reference to an item whose
\* deleter names a destroyed pool.
C8_Step ==
    \A t \in Threads, i \in Items :
        (pc[t] = "idle" /\ holders[i] = {t} /\ holders'[i] = {}
            /\ pool_[i] # NoPool /\ ~alive[pool_[i]]) =>
            /\ pc'[t] = "drop_ret"
            /\ this'[t] = NoPool
            /\ destroyed'[i] = destroyed[i] + 1
            /\ items_' = items_
            /\ mutex_' = mutex_
            /\ alive' = alive

\* C8 (pool-gone release): a pool can be destroyed while its items are checked
\* out. Dropping the last reference to an item bound to a destroyed pool
\* destroys the item in that step, without waiting for a lock and without
\* touching a list, a lock or a pool; no thread is ever inside a call on a
\* destroyed pool, and a destroyed pool holds no entry and no lock holder.
C8_PoolGoneRelease ==
    /\ [][C8_Step]_vars
    /\ [](\A t \in Threads : pc[t] \in CallPcs \cup PushPcs => alive[this[t]])
    /\ [](\A p \in Pools : ~alive[p] => items_[p] = <<>> /\ mutex_[p] = NoThread)
    /\ [](\A t \in Threads : pc[t] = "drop_ret" =>
             destroyed[cur[t]] = 1 /\ Owners(cur[t]) = 0)

\* C8 witness: the deleter of a handle bound to a destroyed pool has run and
\* has destroyed the item, finding no pool.
C8_Witness ==
    \E t \in Threads :
        /\ pc[t] = "drop_ret"
        /\ this[t] = NoPool
        /\ pool_[cur[t]] # NoPool
        /\ ~alive[pool_[cur[t]]]
        /\ destroyed[cur[t]] = 1

\* A caller holds item i: a shared_ptr to it exists that is no call's local.
CallerHeld(i) ==
    /\ holders[i] # {}
    /\ \A t \in Threads :
          /\ ~(cur[t] = i /\ pc[t] \in {"check", "push_lock", "push_cs"})
          /\ i \notin Range(deferred_delete[t])

\* What C9 says of one step.
C9_Step ==
    /\ \A t \in Threads, i \in Items :
          Detach(t, i) => (pool_'[i] = NoPool /\ items_' = items_ /\ holders' = holders)
    /\ \A i \in Items :
          (CallerHeld(i) /\ pool_[i] = NoPool /\ pool_'[i] # NoPool) =>
              \E t \in Threads, p \in Pools : Attach(t, i, p)
    /\ \A t \in Threads, i \in Items :
          (pc[t] = "idle" /\ holders[i] = {t} /\ holders'[i] = {} /\ pool_[i] = NoPool) =>
              /\ pc'[t] = "drop_ret"
              /\ destroyed'[i] = destroyed[i] + 1
              /\ items_' = items_

\* C9 (detach semantics): detach clears the handle's association and touches
\* no list; the association of a handle a caller holds stays cleared until an
\* attach; and dropping the last reference to an unbound handle destroys the
\* item in that step and leaves every list unchanged, whether or not a pool is
\* alive and the item valid.
C9_DetachSemantics ==
    /\ [][C9_Step]_vars
    /\ [](\A t \in Threads : (pc[t] = "drop_ret" /\ this[t] = NoPool) =>
             destroyed[cur[t]] = 1 /\ Owners(cur[t]) = 0)

\* C9 witness: an unbound handle of a valid item has been released and the
\* item destroyed while both pools are alive, owned and empty.
C9_Witness ==
    \E t \in Threads :
        /\ pc[t] = "drop_ret"
        /\ this[t] = NoPool
        /\ pool_[cur[t]] = NoPool
        /\ valid[cur[t]]
        /\ destroyed[cur[t]] = 1
        /\ \A p \in Pools : alive[p] /\ owned[p] /\ items_[p] = <<>>

\* C10 as stated: after a call that the factory's failure ended, the list holds
\* the entries it held before the call, in their order.
C10_Original ==
    \A t \in Threads :
        (pc[t] \in {"create_throw", "get_throw"} /\ snap[t] # Stale) =>
            items_[this[t]] = snap[t].list

\* What the amended C10 says of one step: the step in which v_create() throws.
C10_Step ==
    \A t \in Threads :
        (pc[t] \notin {"create_throw", "get_throw"} /\ pc'[t] \in {"create_throw", "get_throw"}) =>
            /\ UNCHANGED progVars
            /\ cur'[t] = NoItem

\* C10, amended: the failure of the factory hook reaches the caller, and the
\* step in which the hook fails changes nothing of the pools and the items.
\* With no concurrent operation, a failed create() leaves the list as it was
\* before the call; a failed get() leaves it empty, having popped and
\* destroyed, before it fell back to the factory, every entry the list held
\* before the call, none of which passed the validity hook. In both cases
\* every item is owned or destroyed as C2 says.
C10_FactoryFailure ==
    /\ [][C10_Step]_vars
    /\ [](\A t \in Threads :
            /\ (pc[t] = "create_throw" /\ snap[t] # Stale) => items_[this[t]] = snap[t].list
            /\ (pc[t] = "get_throw" /\ snap[t] # Stale) =>
                  /\ items_[this[t]] = <<>>
                  /\ snap[t].ok = {}
                  /\ \A i \in Range(snap[t].list) : destroyed[i] = 1 /\ Owners(i) = 0
            /\ pc[t] \in {"create_throw", "get_throw"} =>
                  /\ cur[t] = NoItem
                  /\ \A i \in Items :
                        Owners(i) = (IF i <= constructed /\ destroyed[i] = 0 THEN 1 ELSE 0))

\* C10 witness: get() began with an entry that failed the hook, destroyed it,
\* and the factory's failure is on its way to the caller.
C10_Witness ==
    \E t \in Threads :
        /\ pc[t] = "get_throw"
        /\ snap[t] # Stale
        /\ Len(snap[t].list) = 1
        /\ destroyed[snap[t].list[1]] = 1
        /\ items_[this[t]] = <<>>

\* The places of a call in which the thread holds the mutex of `this`.
LockedPcs == {"pull_cs", "erase_cs", "erase_swept", "push_cs"}

\* The pools whose mutex thread t holds.
Locks(t) == {p \in Pools : mutex_[p] = t}

\* What C11 says of one step: a step of thread t (the thread whose pc moves)
\* in which an item is constructed or a destructor runs begins and ends with t
\* holding no mutex, and ~pool runs only on a pool whose mutex is free.
C11_Step ==
    /\ \A t \in Threads :
          (pc'[t] # pc[t] /\ (constructed' # constructed \/ destroyed' # destroyed)) =>
              (Locks(t) = {} /\ Locks(t)' = {})
    /\ \A p \in Pools : (alive[p] /\ ~alive'[p]) => mutex_[p] = NoThread

\* C11 (nothing is constructed or destroyed under the lock): no thread
\* constructs or destroys an item while it holds a pool's mutex. A thread holds
\* the mutex only inside pull()'s, push()'s and erase_invalid()'s critical
\* sections; erase_invalid() destroys the entries of deferred_delete after its
\* unlock, get() destroys a pulled invalid item and calls v_create() after
\* pull() has unlocked, and the deleter destroys with no lock taken.
C11_NoWorkUnderLock ==
    /\ [][C11_Step]_vars
    /\ [](\A t \in Threads :
            /\ Locks(t) # {} => (pc[t] \in LockedPcs /\ Locks(t) = {this[t]})
            /\ pc[t] \in LockedPcs => mutex_[this[t]] = t
            /\ pc[t] \in {"check", "fallback", "erase_destroy", "push", "create_ret",
                          "get_ret", "create_throw", "get_throw", "drop_ret"} => Locks(t) = {})

\* C11 witness: erase_invalid() of one thread is about to destroy the entries
\* it removed while the other thread holds the mutex of the same pool.
C11_Witness ==
    \E t \in Threads, u \in Threads :
        /\ pc[t] = "erase_destroy"
        /\ deferred_delete[t] # <<>>
        /\ u # t
        /\ mutex_[this[t]] = u

\* The places of get() before its return.
GetPcs == {"pull", "pull_cs", "check", "fallback"}

C13_Step ==
    \A t \in Threads :
        (pc[t] = "idle" /\ pc'[t] \in {"create_ret", "create_throw"}) =>
            /\ made'[t] = 1
            /\ items_' = items_
            /\ mutex_' = mutex_
            /\ pc'[t] = "create_ret" =>
                  /\ constructed' = constructed + 1
                  /\ cur'[t] = constructed'
                  /\ pool_'[cur'[t]] = this'[t]

\* C13 (create() leaves Storage alone): create() calls v_create() once,
\* whatever items_ holds, and takes neither the mutex nor anything from
\* items_; what it returns is a handle, bound to the pool it was called on, of
\* an item that did not exist before, that only the caller holds and that is
\* in no list. With no concurrent operation items_ is, when create() returns,
\* what it was when create() was called.
C13_CreateFrame ==
    /\ [][C13_Step]_vars
    /\ [](\A t \in Threads : pc[t] = "create_ret" =>
            /\ made[t] = 1
            /\ ~sawEmpty[t]
            /\ holders[cur[t]] = {t}
            /\ pool_[cur[t]] = this[t]
            /\ destroyed[cur[t]] = 0
            /\ \A p \in Pools : cur[t] \notin Range(items_[p])
            /\ snap[t] # Stale =>
                  /\ items_[this[t]] = snap[t].list
                  /\ cur[t] \notin Range(snap[t].list))

\* C13 witness: create() returns a new item while the pool's list holds, as
\* it did at the call, a valid item that get() would have served.
C13_Witness ==
    \E t \in Threads :
        /\ pc[t] = "create_ret"
        /\ snap[t] # Stale
        /\ Len(snap[t].list) = 1
        /\ snap[t].ok = Range(snap[t].list)
        /\ items_[this[t]] = snap[t].list
        /\ cur[t] = 2

\* C14 as stated: attach( handle, pool ) on any handle, one that no pool made
\* included, sets the handle's association to the pool.
C14_Original ==
    [][\A t \in Threads, i \in Items, p \in Pools : Attach(t, i, p) => pool_'[i] = p]_vars

\* What the amended C14 says of one step.
C14_Step ==
    /\ \A t \in Threads, i \in Items, p \in Pools :
          Attach(t, i, p) =>
              IF pool_[i] = NoDeleter
              THEN /\ pc'[t] = "abort"
                   /\ UNCHANGED progVars
              ELSE /\ pool_'[i] = p
                   /\ pc' = pc
                   /\ UNCHANGED <<items_, holders, mutex_, alive, destroyed>>
    /\ \A t \in Threads, i \in Items :
          (pc[t] = "idle" /\ holders[i] = {t} /\ holders'[i] = {}
              /\ pool_[i] \in Pools /\ alive[pool_[i]]) =>
              (pc'[t] = "push" /\ this'[t] = pool_[i] /\ cur'[t] = i)
    /\ \A t \in Threads :
          (pc[t] = "push_cs" /\ pc'[t] = "push_ret") =>
              items_'[this[t]] = Append(items_[this[t]], cur[t])

\* C14, amended: attach( handle, pool ) takes a handle that carries a pool's
\* deleter, that is one that create() or get() of some pool returned, whatever
\* it is bound to now; it then sets the handle's association to the pool, and
\* the last release of the handle, with that pool alive, takes the item to
\* that pool's push(), which appends it to that pool's list once v_is_valid
\* has passed it.
\* A handle made without a pool carries no such deleter: attach on it ends the
\* process, binds nothing, and the item is never in any list.
C14_AttachPoolHandle ==
    /\ [][C14_Step]_vars
    /\ [](\A i \in Items : pool_[i] = NoDeleter =>
             \A p \in Pools : i \notin Range(items_[p]))
    /\ [](\A t \in Threads : pc[t] = "push" => this[t] = pool_[cur[t]])
    /\ []((\E t \in Threads : pc[t] = "abort") =>
             /\ \A t \in Threads : pc[t] = "abort"
             /\ \E i \in Items : pool_[i] = NoDeleter /\ holders[i] # {} /\ destroyed[i] = 0)

\* C14 witness: the process has ended in attach or detach on a handle made
\* without a pool, after an item was released into p2's list.
C14_Witness ==
    /\ pc["t1"] = "abort"
    /\ pool_[2] = NoDeleter
    /\ holders[2] # {}
    /\ items_["p2"] = <<1>>
    /\ items_["p1"] = <<>>

\* The deleters that hold, in p, the result of pool_.lock() on pool q.
Pushers(q) == {t \in Threads : pc[t] \in PushPcs /\ this[t] = q}

\* The live handles bound to pool q.
BoundTo(q) == {i \in Items : pool_[i] = q /\ holders[i] # {} /\ destroyed[i] = 0}

\* What C15 says of one step: when the last outside owner drops the pool,
\* ~pool runs in that step unless a deleter is inside push() with the pool
\* locked, and a destroyed pool stays destroyed.
C15_Step ==
    \A q \in Pools :
        /\ (owned[q] /\ ~owned'[q]) => (alive'[q] <=> Pushers(q) # {})
        /\ ~alive[q] => ~alive'[q]
        /\ ~owned[q] => ~owned'[q]

\* C15 (binding does not extend the pool's lifetime): a pool is alive exactly
\* while it has an owner outside the items or a deleter is inside push() on it
\* with the weak_ptr locked; the handles bound to it and the entries of its
\* list do not count, so that it is destroyed at the drop of its last outside
\* owner (or at the return of the last such deleter) however many handles are
\* bound to it and however many entries its list has.
C15_WeakBinding ==
    /\ [][C15_Step]_vars
    /\ [](\A q \in Pools : alive[q] <=> (owned[q] \/ Pushers(q) # {}))

\* C15 witness: p1 has been destroyed while a caller holds a live handle that
\* is bound to it, and an item has been destroyed.
C15_Witness ==
    /\ ~alive["p1"]
    /\ BoundTo("p1") = {1}
    /\ destroyed[2] = 1
    /\ AllIdle

\* Thread t drops the last reference to item i in this step.
LastDrop(t, i) == pc[t] = "idle" /\ holders[i] = {t} /\ holders'[i] = {}

\* Item i is an entry of some list.
Stored(i) == \E q \in Pools : i \in Range(items_[q])

\* What C16 says of the steps of a release.
C16_Step ==
    /\ \A t \in Threads, i \in Items :
          LastDrop(t, i) =>
              IF pool_[i] \in Pools /\ alive[pool_[i]]
              THEN /\ pc'[t] = "push"
                   /\ this'[t] = pool_[i]
                   /\ cur'[t] = i
                   /\ destroyed' = destroyed
                   /\ items_' = items_
              ELSE /\ pc'[t] = "drop_ret"
                   /\ destroyed'[i] = destroyed[i] + 1
                   /\ items_' = items_
    /\ \A t \in Threads :
          (pc[t] = "push" /\ pc'[t] # "push") =>
              IF valid[cur[t]]
              THEN /\ pc'[t] = "push_lock"
                   /\ destroyed' = destroyed
                   /\ items_' = items_
              ELSE /\ pc'[t] = "drop_ret"
                   /\ destroyed'[cur[t]] = destroyed[cur[t]] + 1
                   /\ \A q \in Pools : cur[t] \notin Range(items_'[q])
    /\ \A t \in Threads :
          (pc[t] \in {"push_lock", "push_cs"} /\ pc'[t] # pc[t]) =>
              \/ pc'[t] = "push_cs" /\ items_' = items_ /\ destroyed' = destroyed
              \/ /\ pc'[t] = "push_ret"
                 /\ items_' = [items_ EXCEPT ![this[t]] = Append(items_[this[t]], cur[t])]

\* C16 (release decision): the drop of the last reference takes the item to
\* push() of the pool the handle is bound to at that moment if that pool is
\* alive, and push() puts it at the back of that pool's list, and of no
\* other, if v_is_valid passes it; an item whose handle is unbound, whose pool
\* is destroyed or that v_is_valid refuses is destroyed, once, and is in no
\* list. With no concurrent operation the list is, when the deleter returns,
\* the list of before with the item appended, or every list is as before.
C16_ReleaseDecision ==
    /\ [][C16_Step]_vars
    /\ [](\A t \in Threads :
            /\ pc[t] \in {"push", "push_lock", "push_cs"} =>
                  (alive[this[t]] /\ destroyed[cur[t]] = 0 /\ ~Stored(cur[t]))
            /\ pc[t] = "drop_ret" => (destroyed[cur[t]] = 1 /\ ~Stored(cur[t]))
            /\ (pc[t] = "push_ret" /\ snap[t] # Stale) =>
                  (items_[this[t]] = Append(snap[t].list, cur[t]) /\ destroyed[cur[t]] = 0)
            /\ (pc[t] = "drop_ret" /\ this[t] # NoPool /\ snap[t] # Stale) =>
                  items_[this[t]] = snap[t].list)

\* C16 witness: the deleter has put item 1 on top of item 2 in the list of p2,
\* with nothing else going on, while p1 is alive too.
C16_Witness ==
    \E t \in Threads :
        /\ pc[t] = "push_ret"
        /\ snap[t] # Stale
        /\ this[t] = "p2"
        /\ snap[t].list = <<2>>
        /\ items_["p2"] = <<2, 1>>
        /\ alive["p1"]

\* The deleter of thread t has resolved the weak pool association:
\* pool_.lock() is the first thing it does after taking the item into up.
Resolved(t) == pc[t] \in PushPcs \cup {"drop_ret"}

\* The deleter of thread t has had the answer of v_is_valid: push() has gone
\* on to its lock, or has returned with the item refused (this[t] names the
\* pool that refused it).
HookRan(t) ==
    \/ pc[t] \in {"push_lock", "push_cs", "push_ret"}
    \/ pc[t] = "drop_ret" /\ this[t] # NoPool

\* C17 as stated: in a release the validity hook has run by the time the weak
\* pool association is resolved, so that it runs in every release, those of
\* unbound handles and of handles whose pool is destroyed included.
C17_Original == \A t \in Threads : Resolved(t) => HookRan(t)

\* What the amended C17 says of the steps of a release.
C17_Step ==
    /\ \A t \in Threads, i \in Items :
          (LastDrop(t, i) /\ ~(pool_[i] \in Pools /\ alive[pool_[i]])) =>
              /\ Resolved(t)' /\ ~HookRan(t)'
              /\ destroyed'[i] = destroyed[i] + 1
    /\ \A t \in Threads, i \in Items :
          (LastDrop(t, i) /\ pool_[i] \in Pools /\ alive[pool_[i]]) =>
              /\ Resolved(t)' /\ ~HookRan(t)'
              /\ this'[t] = pool_[i]
              /\ destroyed' = destroyed
    /\ \A t \in Threads :
          (~HookRan(t) /\ HookRan(t)') =>
              /\ pc[t] = "push"
              /\ pc'[t] = (IF valid[cur[t]] THEN "push_lock" ELSE "drop_ret")

\* C17, amended: on every release the weak pool association is resolved first
\* (step 3 before step 2). The validity hook, which is the pool's, runs only
\* when the association has resolved to a live pool, on that pool and before
\* the push; an item whose handle is unbound or whose pool is destroyed is
\* destroyed without the hook having run on it, whether it is valid or not.
C17_ResolveThenHook ==
    /\ [][C17_Step]_vars
    /\ [](\A t \in Threads : HookRan(t) => (Resolved(t) /\ this[t] \in Pools))
    /\ [](\A t \in Threads : pc[t] = "push" => (alive[this[t]] /\ destroyed[cur[t]] = 0))
    /\ [](\A t \in Threads : (pc[t] = "drop_ret" /\ ~HookRan(t)) => destroyed[cur[t]] = 1)

\* C17 witness: an unbound handle of an invalid item has been released while
\* both pools are alive: the item has been destroyed and no hook has run.
C17_Witness ==
    \E t \in Threads :
        /\ pc[t] = "drop_ret"
        /\ ~HookRan(t)
        /\ pool_[cur[t]] = NoPool
        /\ ~valid[cur[t]]
        /\ destroyed[cur[t]] = 1
        /\ \A q \in Pools : alive[q]

\* The deleter of thread t is at work on the item it took over: from its
\* entry to the push_back or the item's destruction.
Releasing(t) == pc[t] \in {"push", "push_lock", "push_cs"}

\* What C18 says of one step.
C18_Step ==
    /\ \A t \in Threads, i \in Items :
          (pc[t] = "idle" /\ t \in holders[i] /\ t \notin holders'[i]) =>
              IF holders[i] = {t}
              THEN pc'[t] \in {"push", "drop_ret"} /\ cur'[t] = i
              ELSE pc' = pc /\ destroyed' = destroyed /\ items_' = items_
    /\ \A t \in Threads :
          (pc[t] = "idle" /\ pc'[t] \in {"push", "drop_ret"}) =>
              (holders[cur'[t]] = {t} /\ holders'[cur'[t]] = {})
    /\ \A i \in Items :
          destroyed[i] >= 1 =>
              /\ destroyed'[i] = destroyed[i]
              /\ holders'[i] = {}
              /\ \A q \in Pools : i \notin Range(items_'[q])
              /\ \A t \in Threads : pc'[t] \in {"check", "get_ret", "create_ret"} => cur'[t] # i

\* C18 (destroyed is terminal, one release for each checkout): the deleter
\* runs in the step that drops the last copy of a handle and in no other, so
\* that an item is in the hands of at most one deleter, and then of nobody
\* else and in no list; a destroyed item is destroyed once and stays so: no
\* list holds it, nobody holds it, no get() or create() has it as its result
\* and no deleter has it.
C18_DestroyedTerminal ==
    /\ [][C18_Step]_vars
    /\ [](\A t \in Threads : Releasing(t) =>
            /\ holders[cur[t]] \subseteq {t}
            /\ ~Stored(cur[t])
            /\ \A u \in Threads \ {t} : Releasing(u) => cur[u] # cur[t])
    /\ [](\A i \in Items : destroyed[i] >= 1 =>
            /\ destroyed[i] = 1
            /\ holders[i] = {}
            /\ ~Stored(i)
            /\ \A t \in Threads :
                  (Releasing(t) \/ pc[t] \in {"check", "get_ret", "create_ret"}) => cur[t] # i)

\* C18 witness: get() returns item 2 from the list, after a release of it,
\* while item 1 is destroyed.
C18_Witness ==
    \E t \in Threads :
        /\ pc[t] = "get_ret"
        /\ made[t] = 0
        /\ cur[t] = 2
        /\ destroyed[1] = 1
        /\ holders[2] = {t}

\* What C19 says of one step: the step in which ~pool runs on q.
C19_Step ==
    \A q \in Pools :
        (alive[q] /\ ~alive'[q]) =>
            /\ items_'[q] = <<>>
            /\ \A r \in Pools \ {q} : items_'[r] = items_[r]
            /\ \A i \in Range(items_[q]) : destroyed[i] = 0 /\ destroyed'[i] = 1
            /\ \A t \in Threads :
                  (pc[t] = "push_ret" /\ this[t] = q /\ items_[q] # <<>>
                      /\ Last(items_[q]) = cur[t]) => destroyed'[cur[t]] = 1

\* C19 (no leak at the pool's destruction): the entries of a list carry an
\* empty pool association and are held by nobody, so that ~pool destroys
\* each of them, once, and moves none to another list; so it is when ~pool
\* runs at the return of a deleter that held the last strong reference and
\* has just pushed its item. When every pool is destroyed, every handle
\* released and every call over, every item ever constructed has been
\* destroyed exactly once.
C19_NoLeak ==
    /\ [][C19_Step]_vars
    /\ [](\A q \in Pools : \A i \in Range(items_[q]) :
             pool_[i] = NoPool /\ holders[i] = {} /\ destroyed[i] = 0)
    /\ []((AllIdle /\ Held = {} /\ \A q \in Pools : ~alive[q]) =>
             \A i \in Items : destroyed[i] = (IF i <= constructed THEN 1 ELSE 0))

\* C19 witness: both pools are destroyed, no handle is left and the two items
\* that were constructed have been destroyed once each.
C19_Witness ==
    /\ AllIdle
    /\ Held = {}
    /\ \A q \in Pools : ~alive[q]
    /\ constructed = 2
    /\ \A i \in Items : destroyed[i] = 1

\* What C20 says of one step.
C20_Step ==
    /\ \A t \in Threads, i \in Items, p \in Pools :
          Attach(t, i, p) =>
              /\ pool_' = [pool_ EXCEPT ![i] = p]
              /\ UNCHANGED <<items_, mutex_, holders, destroyed, pc>>
    /\ \A t \in Threads, i \in Items :
          Detach(t, i) =>
              /\ pool_' = [pool_ EXCEPT ![i] = NoPool]
              /\ UNCHANGED <<items_, mutex_, holders, destroyed, pc>>
    /\ \A i \in Items :
          (CallerHeld(i) /\ CallerHeld(i)' /\ pool_'[i] # pool_[i]) =>
              \E t \in holders[i] : Detach(t, i) \/ \E p \in Pools : Attach(t, i, p)
    /\ \A u \in Threads, i \in Items :
          LastDrop(u, i) =>
              IF pool_[i] \in Pools /\ alive[pool_[i]]
              THEN pc'[u] = "push" /\ this'[u] = pool_[i]
              ELSE pc'[u] = "drop_ret" /\ this'[u] = NoPool

\* C20 (the binding belongs to the item): attach or detach through any copy
\* of a handle sets the one association that all its copies share and leaves
\* every list, lock and holder as it is; while callers hold the handle, that
\* association changes by nothing but an attach or detach through one of its
\* copies (copying it and dropping a copy that is not the last do not change
\* it); and the drop of the last copy, whichever thread's it is, sends the
\* item where that association points at that moment. get() sets it on a
\* handle that only get() holds.
C20_SharedBinding ==
    /\ [][C20_Step]_vars
    /\ [](\A t \in Threads : pc[t] = "get_ret" =>
             (pool_[cur[t]] = this[t] /\ holders[cur[t]] = {t}))
    /\ [](\A i \in Items : holders[i] # {} => pool_[i] \in Pools \cup {NoPool})

\* C20 witness: both threads hold a copy of the handle of item 1, and the
\* handle is unbound, as only a detach through a copy leaves a handle that
\* callers hold, while both pools are alive.
C20_Witness ==
    /\ holders[1] = Threads
    /\ pool_[1] = NoPool
    /\ destroyed[1] = 0
    /\ AllIdle
    /\ \A q \in Pools : alive[q] /\ owned[q]

====
